---------------------------- MODULE Spec2Model ----------------------------
(***************************************************************************)
(* The event bus of src/src/core/events.py: the EventBus singleton         *)
(* (instance / reset under the class lock _lock), the per-bus subscriber   *)
(* registry (_subscribers under _sub_lock) and the dispatch loop of        *)
(* publish; and the two value classes of src/src/core/models.py.           *)
(*                                                                         *)
(* Every thread runs a call stack of frames.  A critical section (a with   *)
(* block) is two actions: one that enters it when the lock is free and     *)
(* runs its body, one that leaves it; everything the registry's code       *)
(* reads or writes of _subscribers lies inside such a block.  The reads    *)
(* of the class attribute _instance that instance() makes outside its      *)
(* with block, and every handler invocation, are actions of their own.     *)
(*                                                                         *)
(* In events.py the definitions of instance, reset, subscribe, unsubscribe  *)
(* and publish (lines 63-123) are indented one level below __init__, and   *)
(* line 56 subscripts ClassVar with threading.lock; the model takes the    *)
(* five bodies as the methods of EventBus that their signatures (cls /     *)
(* self) and decorators declare, and _lock as the threading.Lock() that    *)
(* line 56 constructs.                                                     *)
(***************************************************************************)
EXTENDS Integers, Sequences, FiniteSets

(***************************************************************************)
(* Bounds of the model.                                                    *)
(***************************************************************************)
NThreads == 2      \* threads calling into the bus
NHandlers == 2     \* distinct handler callables
MaxLen == 2        \* registrations per bus and event type
MaxRegs == 3       \* the same where subscribe runs line by line
MaxHandlers == 3   \* distinct handler callables where three are needed
MaxResets == 1     \* calls of EventBus.reset()
MaxDepth == 2      \* publish calls nested on one thread's stack
MaxCalls == 1      \* bus calls one handler invocation makes
MaxPct == 2        \* size of a PriceSnapshot.change_pct

Threads == 1 .. NThreads
Handlers == 1 .. NHandlers

\* Two of the event classes of events.py:9-45 (the registry keys are classes).
EventTypes == {"FetchFailedEvent", "RefreshCompletedEvent"}

\* Python's None for the class attribute _instance; buses are numbered from 1.
None == 0
\* A thread that has not yet received anything from instance().
Unset == None - 1
NoType == "-"
NoEvent == [type |-> NoType, payload |-> 0]
NoGone == [bus |-> None, etype |-> NoType, h |-> 0, kind |-> "no"]

VARIABLES
    _instance,      \* EventBus._instance: None or the current bus
    _lock,          \* EventBus._lock: 0 (free) or the thread holding it
    _subscribers,   \* bus -> its _subscribers dict: [keys, lists]
    _sub_lock,      \* bus -> 0 (free) or the thread holding its _sub_lock
    stack,          \* thread -> its call stack, a sequence of frames
    bus,            \* thread -> what its last instance() call returned
    escaped,        \* thread -> the exception that left its bus call, or ""
    epoch,          \* history: number of reset() assignments so far
    createdIn,      \* history: bus -> the epoch in which it was constructed
    busEpoch,       \* history: thread -> the epoch its last instance() call
                    \*   ran in from call to return, or Unset if a reset cut it
    subOrder,       \* history: bus -> type -> the handlers in the order of
                    \*   their subscribe calls, less the unsubscribed ones
    selfGone,       \* history: the latest handler that unsubscribed itself
                    \*   during its own invocation and has not been subscribed
                    \*   again; kind "one" if it had a single registration,
                    \*   "dup" if it had more
    unsubscribed,   \* history: the <<bus, type, handler>> whose unsubscribe
                    \*   call has returned having removed the handler's only
                    \*   registration, and that no subscribe call has named
                    \*   since
    barred,         \* history: thread -> the handlers that `unsubscribed`
                    \*   held for the bus and type of the thread's publish
                    \*   call when that call started
    tracker,        \* models.py: the Tracker constructed last, or NoTracker
    snapshot        \* models.py: the PriceSnapshot constructed last, or
                    \*   NoSnapshot

busVars == <<_instance, _lock, _subscribers, _sub_lock, stack, bus, escaped,
             epoch, createdIn, busEpoch, subOrder, selfGone>>

vars == <<_instance, _lock, _subscribers, _sub_lock, stack, bus, escaped,
          epoch, createdIn, busEpoch, subOrder, selfGone,
          unsubscribed, barred, tracker, snapshot>>

Buses == DOMAIN _subscribers

(***************************************************************************)
(* Sequences and dicts.                                                    *)
(***************************************************************************)
Range(s) == {s[k] : k \in 1 .. Len(s)}

IsPrefix(s, t) == Len(s) <= Len(t) /\ s = SubSeq(t, 1, Len(s))

\* The index of the first occurrence of h in s (h occurs in s).
FirstIndex(s, h) ==
    CHOOSE k \in 1 .. Len(s) : s[k] = h /\ \A j \in 1 .. k - 1 : s[j] # h

\* list.remove(h): drops the first occurrence of h.
ListRemove(s, h) ==
    LET k == FirstIndex(s, h)
    IN  SubSeq(s, 1, k - 1) \o SubSeq(s, k + 1, Len(s))

Count(s, h) == Cardinality({k \in 1 .. Len(s) : s[k] = h})

\* The empty dict {} of EventBus.__init__.
EmptyDict == [keys |-> {}, lists |-> [T \in EventTypes |-> <<>>]]

\* dict.get(T, []).
DictGet(d, T) == IF T \in d.keys THEN d.lists[T] ELSE <<>>

(***************************************************************************)
(* Frames of a call stack.                                                 *)
(***************************************************************************)
Frame(op, pc, b, T, h, ev) ==
    [op |-> op, pc |-> pc, bus |-> b, etype |-> T, h |-> h, ev |-> ev,
     handlers |-> <<>>,     \* publish: the local list `handlers`
     i |-> 1,               \* publish: position of the for loop
     locked |-> FALSE,      \* publish: the for loop runs inside the with block
     calls |-> 0,           \* handler: bus calls made so far
     invoked |-> <<>>,      \* history, publish: <<handler, event>> invoked
     expect |-> <<>>,       \* history, publish: subOrder at the snapshot
     raised |-> {},         \* history, publish: positions whose handler raised
     selfUnsub |-> FALSE,   \* history, publish: a handler of this dispatch
                            \*   unsubscribed itself
     gone |-> NoGone,       \* history, publish: selfGone at the snapshot, if
                            \*   it is about this bus and type
     startEpoch |-> 0,      \* history, instance: epoch at the call
     before |-> EmptyDict,  \* history, (un)subscribe: the dict before the body
     present |-> FALSE]     \* history, unsubscribe: handler was in the list

Top(t) == stack[t][Len(stack[t])]
Idle(t) == stack[t] = <<>>
At(t, op, pc) == ~Idle(t) /\ Top(t).op = op /\ Top(t).pc = pc

Push(t, f) == [stack EXCEPT ![t] = Append(@, f)]
Pop(t) == [stack EXCEPT ![t] = SubSeq(@, 1, Len(@) - 1)]
SetTop(t, f) == [stack EXCEPT ![t] = [@ EXCEPT ![Len(@)] = f]]
Goto(t, pc) == SetTop(t, [Top(t) EXCEPT !.pc = pc])

(***************************************************************************)
(* Calls.  A bus call is made by a thread at its top level on the bus it   *)
(* got from instance(), or by a running handler on the bus that is         *)
(* dispatching to it (a re-entrant call).  A thread whose call an          *)
(* exception left makes no further calls.                                  *)
(***************************************************************************)
InHandler(t) == At(t, "handler", "run")

TopLevel(t) == Idle(t) /\ escaped[t] = ""

CanCall(t) ==
    \/ TopLevel(t) /\ bus[t] \in Buses
    \/ InHandler(t) /\ Top(t).calls < MaxCalls

TargetBus(t) == IF Idle(t) THEN bus[t] ELSE Top(t).bus

\* The stack of t after it calls into frame f.
Call(t, f) ==
    IF Idle(t) THEN Push(t, f)
    ELSE [stack EXCEPT ![t] =
            Append([@ EXCEPT ![Len(@)].calls = @ + 1], f)]

(***************************************************************************)
(* EventBus.__init__, events.py:58-61.                                     *)
(***************************************************************************)
\* A dict shared by every bus, as a class attribute would be.
InitSubscribers_Shared ==
    IF Buses = {} THEN EmptyDict ELSE _subscribers[Cardinality(Buses)]

\* self._subscribers = {}
InitSubscribers == EmptyDict

\* The object cls() constructs: a bus no reference names yet.
NewBus == Cardinality(Buses) + 1

Extend(f, b, v) == [x \in DOMAIN f \cup {b} |-> IF x = b THEN v ELSE f[x]]

(***************************************************************************)
(* EventBus.instance, events.py:63-76.                                     *)
(***************************************************************************)
\* if cls._instance is None:   (line 72, no lock held)
FirstCheck == _instance = None

\* The call, and the first check.
InstanceCall(t) ==
    /\ TopLevel(t)
    /\ stack' = Push(t, [Frame("instance",
                               IF FirstCheck THEN "acquire" ELSE "return",
                               None, NoType, 0, NoEvent)
                            EXCEPT !.startEpoch = epoch])
    /\ UNCHANGED <<_instance, _lock, _subscribers, _sub_lock, bus, escaped,
                   epoch, createdIn, busEpoch, subOrder, selfGone>>

\* instance() without its second check: whoever enters the block constructs.
SecondCheck_Skipped == TRUE

\* if cls._instance is None:  # second check   (line 74)
SecondCheck == _instance = None

\* with cls._lock: if <second check>: cls._instance = cls()   (lines 73-75)
InstanceLocked(t) ==
    /\ At(t, "instance", "acquire")
    /\ _lock = 0
    /\ _lock' = t
    /\ stack' = Goto(t, "release")
    /\ IF SecondCheck
       THEN /\ _instance' = NewBus
            /\ _subscribers' = Extend(_subscribers, NewBus, InitSubscribers)
            /\ _sub_lock' = Extend(_sub_lock, NewBus, 0)
            /\ createdIn' = Extend(createdIn, NewBus, epoch)
            /\ subOrder' = Extend(subOrder, NewBus, [T \in EventTypes |-> <<>>])
       ELSE UNCHANGED <<_instance, _subscribers, _sub_lock, createdIn, subOrder>>
    /\ UNCHANGED <<bus, escaped, epoch, busEpoch, selfGone>>

\* leaving the with block   (line 75 -> 76)
InstanceRelease(t) ==
    /\ At(t, "instance", "release")
    /\ _lock' = 0
    /\ stack' = Goto(t, "return")
    /\ UNCHANGED <<_instance, _subscribers, _sub_lock, bus, escaped, epoch,
                   createdIn, busEpoch, subOrder, selfGone>>

\* return cls._instance   (line 76, no lock held)
InstanceReturn(t) ==
    /\ At(t, "instance", "return")
    /\ bus' = [bus EXCEPT ![t] = _instance]
    /\ busEpoch' = [busEpoch EXCEPT ![t] =
                      IF Top(t).startEpoch = epoch THEN epoch ELSE Unset]
    /\ stack' = Pop(t)
    /\ UNCHANGED <<_instance, _lock, _subscribers, _sub_lock, escaped, epoch,
                   createdIn, subOrder, selfGone>>

(***************************************************************************)
(* EventBus.reset, events.py:78-85.                                        *)
(***************************************************************************)
\* A reset that leaves the class attribute as it is.
ResetValue_Kept == _instance

\* the value line 85 assigns to cls._instance
ResetValue == None

\* with cls._lock: cls._instance = None   (lines 84-85)
ResetLocked(t) ==
    /\ TopLevel(t)
    /\ epoch < MaxResets
    /\ _lock = 0
    /\ _lock' = t
    /\ _instance' = ResetValue
    /\ epoch' = epoch + 1
    /\ stack' = Push(t, Frame("reset", "release", None, NoType, 0, NoEvent))
    /\ UNCHANGED <<_subscribers, _sub_lock, bus, escaped, createdIn,
                   busEpoch, subOrder, selfGone>>

\* leaving the with block, and the return
ResetRelease(t) ==
    /\ At(t, "reset", "release")
    /\ _lock' = 0
    /\ stack' = Pop(t)
    /\ UNCHANGED <<_instance, _subscribers, _sub_lock, bus, escaped, epoch,
                   createdIn, busEpoch, subOrder, selfGone>>

(***************************************************************************)
(* Exceptions.  An exception raised in the top frame of t leaves every     *)
(* frame up to the nearest handler invocation, where the try / except of   *)
(* publish (events.py:119-123) catches it if its class derives from        *)
(* Exception; otherwise it leaves that publish too, and so on to the       *)
(* caller at the top level.  Leaving a with block releases its lock.       *)
(***************************************************************************)
ExceptionKinds == {"Exception", "BaseException"}

\* A dispatch loop without the try / except.
Caught_Nothing(kind) == FALSE

\* except Exception as exc:   (line 121)
Caught(kind) == kind = "Exception"

\* The frames that hold the _sub_lock of their bus.
HoldsSubLock(f) ==
    \/ f.op \in {"subscribe", "unsubscribe", "publish"} /\ f.pc = "release"
    \/ f.op = "publish" /\ f.pc = "loop" /\ f.locked

\* The position of the handler frame whose publish catches an exception of
\* `kind` raised at the top of stack s, or 0 if it reaches the top level.
CatchAt(s, kind) ==
    LET hs == {k \in 1 .. Len(s) : s[k].op = "handler"}
    IN  IF Caught(kind) /\ hs # {}
        THEN CHOOSE k \in hs : \A j \in hs : j <= k
        ELSE 0

\* The stack of t after the exception: the catching publish prints the
\* diagnostic (line 123) and goes on with the next handler.
RaiseStack(t, kind) ==
    LET s == stack[t]
        k == CatchAt(s, kind)
    IN  IF k = 0 THEN <<>>
        ELSE [SubSeq(s, 1, k - 1) EXCEPT
                ![k - 1].raised = @ \cup {s[k - 1].i},
                ![k - 1].i = @ + 1]

\* The locks after the exception: those of the frames it left are released.
RaiseLocks(t, kind) ==
    LET s == stack[t]
        k == CatchAt(s, kind)
        left == {s[j].bus : j \in {j \in 1 .. Len(s) : j >= k /\ HoldsSubLock(s[j])}}
    IN  [b \in Buses |-> IF b \in left /\ _sub_lock[b] = t THEN 0 ELSE _sub_lock[b]]

RaiseEscaped(t, kind) ==
    IF CatchAt(stack[t], kind) = 0 THEN [escaped EXCEPT ![t] = kind] ELSE escaped

(***************************************************************************)
(* EventBus.subscribe, events.py:87-98.                                    *)
(***************************************************************************)
\* list.insert(0, handler) in place of append.
SubscribeEffect_Prepend(d, T, h) ==
    [keys |-> d.keys \cup {T},
     lists |-> [d.lists EXCEPT ![T] = <<h>> \o DictGet(d, T)]]

\* The handler appended to the list of every event type.
SubscribeEffect_AllKeys(d, T, h) ==
    [keys |-> EventTypes,
     lists |-> [U \in EventTypes |-> Append(DictGet(d, U), h)]]

\* if event_type not in self._subscribers: self._subscribers[event_type] = []
\* self._subscribers[event_type].append(handler)   (lines 96-98)
SubscribeEffect(d, T, h) ==
    [keys |-> d.keys \cup {T},
     lists |-> [d.lists EXCEPT ![T] = Append(DictGet(d, T), h)]]

\* with self._sub_lock: <lines 96-98>   (line 95)
SubscribeLocked(t, T, h) ==
    /\ CanCall(t)
    /\ LET b == TargetBus(t)
       IN  /\ Len(DictGet(_subscribers[b], T)) < MaxLen
           /\ _sub_lock[b] = 0
           /\ _sub_lock' = [_sub_lock EXCEPT ![b] = t]
           /\ _subscribers' = [_subscribers EXCEPT ![b] = SubscribeEffect(@, T, h)]
           /\ subOrder' = [subOrder EXCEPT ![b][T] = Append(@, h)]
           /\ selfGone' = IF selfGone = [NoGone EXCEPT !.bus = b, !.etype = T, !.h = h,
                                                       !.kind = selfGone.kind]
                          THEN NoGone
                          ELSE selfGone
           /\ stack' = Call(t, [Frame("subscribe", "release", b, T, h, NoEvent)
                                  EXCEPT !.before = _subscribers[b]])
    /\ UNCHANGED <<_instance, _lock, bus, escaped, epoch, createdIn, busEpoch>>

\* leaving the with block, and the return
SubscribeRelease(t) ==
    /\ At(t, "subscribe", "release")
    /\ _sub_lock' = [_sub_lock EXCEPT ![Top(t).bus] = 0]
    /\ stack' = Pop(t)
    /\ UNCHANGED <<_instance, _lock, _subscribers, bus, escaped, epoch,
                   createdIn, busEpoch, subOrder, selfGone>>

(***************************************************************************)
(* EventBus.subscribe line by line: the call, the with statement of line   *)
(* 95, the test of line 96, the assignment of line 97, the append of line  *)
(* 98.  SubscribeLocked above is these steps run as one, which is what     *)
(* the lock makes of them; here every thread may be between any two.       *)
(***************************************************************************)
\* subscribe without its with statement.
SubscribeTakesLock_No == FALSE

\* Whether lines 96-98 run inside `with self._sub_lock:` (line 95).
SubscribeTakesLock == TRUE

\* the call subscribe(T, h)
SubscribeCall(t, T, h) ==
    /\ CanCall(t)
    /\ LET b == TargetBus(t)
       IN  /\ Len(subOrder[b][T]) < MaxRegs
           /\ subOrder' = [subOrder EXCEPT ![b][T] = Append(@, h)]
           /\ selfGone' = IF selfGone = [NoGone EXCEPT !.bus = b, !.etype = T, !.h = h,
                                                       !.kind = selfGone.kind]
                          THEN NoGone
                          ELSE selfGone
           /\ stack' = Call(t, Frame("subscribe", "acquire", b, T, h, NoEvent))
    /\ UNCHANGED <<_instance, _lock, _subscribers, _sub_lock, bus, escaped,
                   epoch, createdIn, busEpoch>>

\* with self._sub_lock:   (line 95)
SubscribeAcquire(t) ==
    /\ At(t, "subscribe", "acquire")
    /\ LET b == Top(t).bus
       IN  /\ SubscribeTakesLock => _sub_lock[b] = 0
           /\ _sub_lock' = IF SubscribeTakesLock
                           THEN [_sub_lock EXCEPT ![b] = t]
                           ELSE _sub_lock
           /\ stack' = SetTop(t, [Top(t) EXCEPT !.pc = "check",
                                                !.before = _subscribers[b]])
    /\ UNCHANGED <<_instance, _lock, _subscribers, bus, escaped, epoch,
                   createdIn, busEpoch, subOrder, selfGone>>

\* if event_type not in self._subscribers:   (line 96)
SubscribeCheck(t) ==
    /\ At(t, "subscribe", "check")
    /\ stack' = Goto(t, IF Top(t).etype \notin _subscribers[Top(t).bus].keys
                        THEN "create" ELSE "append")
    /\ UNCHANGED <<_instance, _lock, _subscribers, _sub_lock, bus, escaped,
                   epoch, createdIn, busEpoch, subOrder, selfGone>>

\* self._subscribers[event_type] = []   (line 97)
SubscribeCreate(t) ==
    /\ At(t, "subscribe", "create")
    /\ _subscribers' = [_subscribers EXCEPT ![Top(t).bus] =
                          [keys |-> @.keys \cup {Top(t).etype},
                           lists |-> [@.lists EXCEPT ![Top(t).etype] = <<>>]]]
    /\ stack' = Goto(t, "append")
    /\ UNCHANGED <<_instance, _lock, _sub_lock, bus, escaped, epoch,
                   createdIn, busEpoch, subOrder, selfGone>>

\* self._subscribers[event_type].append(handler)   (line 98)
SubscribeAppend(t) ==
    /\ At(t, "subscribe", "append")
    /\ _subscribers' = [_subscribers EXCEPT ![Top(t).bus].lists[Top(t).etype] =
                          Append(@, Top(t).h)]
    /\ stack' = Goto(t, "release")
    /\ UNCHANGED <<_instance, _lock, _sub_lock, bus, escaped, epoch,
                   createdIn, busEpoch, subOrder, selfGone>>

(***************************************************************************)
(* EventBus.unsubscribe, events.py:100-105.                                *)
(***************************************************************************)
\* list.remove without the membership test: ValueError if h is not there.
UnsubscribeEffect_Unguarded(d, T, h) ==
    IF h \in Range(DictGet(d, T))
    THEN [dict |-> [d EXCEPT !.lists[T] = ListRemove(@, h)], error |-> ""]
    ELSE [dict |-> d, error |-> "Exception"]

\* dict.setdefault in place of dict.get: the key appears.
UnsubscribeEffect_SetDefault(d, T, h) ==
    IF h \in Range(DictGet(d, T))
    THEN [dict |-> [d EXCEPT !.lists[T] = ListRemove(@, h)], error |-> ""]
    ELSE [dict |-> [d EXCEPT !.keys = @ \cup {T}], error |-> ""]

\* The last occurrence of h removed in place of the first.
UnsubscribeEffect_Last(d, T, h) ==
    IF h \in Range(DictGet(d, T))
    THEN LET l == DictGet(d, T)
             k == CHOOSE j \in 1 .. Len(l) :
                     l[j] = h /\ \A m \in j + 1 .. Len(l) : l[m] # h
         IN  [dict |-> [d EXCEPT !.lists[T] =
                          SubSeq(l, 1, k - 1) \o SubSeq(l, k + 1, Len(l))],
              error |-> ""]
    ELSE [dict |-> d, error |-> ""]

\* remove applied to a copy of the registered list: the registry keeps h.
UnsubscribeEffect_OnCopy(d, T, h) == [dict |-> d, error |-> ""]

\* handlers = self._subscribers.get(event_type, [])
\* if handler in handlers: handlers.remove(handler)   (lines 103-105)
\* `handlers` is the registered list itself when the key exists, so remove
\* changes the registry; the [] of a missing key is never stored.
UnsubscribeEffect(d, T, h) ==
    IF h \in Range(DictGet(d, T))
    THEN [dict |-> [d EXCEPT !.lists[T] = ListRemove(@, h)], error |-> ""]
    ELSE [dict |-> d, error |-> ""]

\* The call is made by handler h while it is invoked for an event of type T.
IsSelfCall(t, T, h) == InHandler(t) /\ Top(t).h = h /\ Top(t).etype = T

\* with self._sub_lock: <lines 103-105>   (line 102)
UnsubscribeLocked(t, T, h) ==
    /\ CanCall(t)
    /\ LET b == TargetBus(t)
           old == DictGet(_subscribers[b], T)
           was == h \in Range(old)
           eff == UnsubscribeEffect(_subscribers[b], T, h)
           self == IsSelfCall(t, T, h) /\ was
           called == Call(t, [Frame("unsubscribe", "release", b, T, h, NoEvent)
                                EXCEPT !.before = _subscribers[b],
                                       !.present = was])
       IN  /\ _sub_lock[b] = 0
           /\ _subscribers' = [_subscribers EXCEPT ![b] = eff.dict]
           /\ subOrder' = [subOrder EXCEPT ![b][T] =
                             IF h \in Range(@) THEN ListRemove(@, h) ELSE @]
           /\ selfGone' = IF self
                          THEN [bus |-> b, etype |-> T, h |-> h,
                                kind |-> IF Count(old, h) = 1 THEN "one" ELSE "dup"]
                          ELSE selfGone
           /\ IF eff.error = ""
              THEN /\ stack' = IF self
                               THEN [called EXCEPT ![t][Len(stack[t]) - 1].selfUnsub = TRUE]
                               ELSE called
                   /\ _sub_lock' = [_sub_lock EXCEPT ![b] = t]
                   /\ UNCHANGED escaped
              ELSE /\ stack' = [stack EXCEPT ![t] = RaiseStack(t, eff.error)]
                   /\ _sub_lock' = RaiseLocks(t, eff.error)
                   /\ escaped' = RaiseEscaped(t, eff.error)
    /\ UNCHANGED <<_instance, _lock, bus, epoch, createdIn, busEpoch>>

\* leaving the with block, and the return
UnsubscribeRelease(t) ==
    /\ At(t, "unsubscribe", "release")
    /\ _sub_lock' = [_sub_lock EXCEPT ![Top(t).bus] = 0]
    /\ stack' = Pop(t)
    /\ UNCHANGED <<_instance, _lock, _subscribers, bus, escaped, epoch,
                   createdIn, busEpoch, subOrder, selfGone>>

(***************************************************************************)
(* EventBus.publish, events.py:107-123.                                    *)
(***************************************************************************)
Events == [type : EventTypes, payload : {1}]

\* event_type = type(event)   (line 114)
TypeOf(ev) == ev.type

PublishDepth(t) == Cardinality({k \in 1 .. Len(stack[t]) : stack[t][k].op = "publish"})

\* list(self._subscribers.get(event_type, [])): a new list of the same items
Snapshot(d, T) == DictGet(d, T)

\* dict.setdefault in place of dict.get: the key of the event's type appears.
SnapshotEffect_SetDefault(d, T) == [d EXCEPT !.keys = @ \cup {T}]

\* What self._subscribers.get(event_type, []) of line 116 leaves of the
\* dict: get stores nothing, the [] of a missing key is thrown away.
SnapshotEffect(d, T) == d

\* event_type = type(event)
\* with self._sub_lock: handlers = list(...)   (lines 114-116)
PublishLocked(t, ev) ==
    /\ CanCall(t)
    /\ PublishDepth(t) < MaxDepth
    /\ LET b == TargetBus(t)
           T == TypeOf(ev)
       IN  /\ _sub_lock[b] = 0
           /\ _sub_lock' = [_sub_lock EXCEPT ![b] = t]
           /\ _subscribers' = [_subscribers EXCEPT ![b] = SnapshotEffect(@, T)]
           /\ stack' = Call(t, [Frame("publish", "release", b, T, 0, ev) EXCEPT
                 !.handlers = Snapshot(_subscribers[b], T),
                 !.expect = subOrder[b][ev.type],
                 !.gone = IF selfGone.bus = b /\ selfGone.etype = T
                          THEN selfGone ELSE NoGone])
    /\ UNCHANGED <<_instance, _lock, bus, escaped, epoch,
                   createdIn, busEpoch, subOrder, selfGone>>

\* The for loop indented into the with block.
LoopInsideLock_Yes == TRUE

\* Whether the for loop of line 118 is part of the with block of line 115:
\* it is not, the with block ends after line 116.
LoopInsideLock == FALSE

\* leaving the with block   (line 116 -> 118)
PublishRelease(t) ==
    /\ At(t, "publish", "release")
    /\ IF LoopInsideLock
       THEN /\ stack' = SetTop(t, [Top(t) EXCEPT !.pc = "loop", !.locked = TRUE])
            /\ UNCHANGED _sub_lock
       ELSE /\ stack' = Goto(t, "loop")
            /\ _sub_lock' = [_sub_lock EXCEPT ![Top(t).bus] = 0]
    /\ UNCHANGED <<_instance, _lock, _subscribers, bus, escaped, epoch,
                   createdIn, busEpoch, subOrder, selfGone>>

\* The loop walking the registered list itself (no list(...) copy): a
\* Python for loop reads position i of the list as it is at each step.
DispatchList_Live(f) == DictGet(_subscribers[f.bus], f.etype)

\* The list the for loop of line 118 walks: the local copy.
DispatchList(f) == f.handlers

\* The argument of handler(event)   (line 120)
HandlerArg(f) == f.ev

\* for handler in handlers: ... handler(event)   (lines 118-120)
PublishInvoke(t) ==
    /\ At(t, "publish", "loop")
    /\ Top(t).i <= Len(DispatchList(Top(t)))
    /\ LET f == Top(t)
           h == DispatchList(f)[f.i]
       IN  stack' = [stack EXCEPT ![t] =
                       Append([@ EXCEPT ![Len(@)].invoked =
                                          Append(@, <<h, HandlerArg(f)>>)],
                              Frame("handler", "run", f.bus, f.etype, h, f.ev))]
    /\ UNCHANGED <<_instance, _lock, _subscribers, _sub_lock, bus, escaped,
                   epoch, createdIn, busEpoch, subOrder, selfGone>>

\* the for loop is exhausted: publish returns None to its caller
PublishReturn(t) ==
    /\ At(t, "publish", "loop")
    /\ Top(t).i > Len(DispatchList(Top(t)))
    /\ _sub_lock' = IF Top(t).locked
                    THEN [_sub_lock EXCEPT ![Top(t).bus] = 0]
                    ELSE _sub_lock
    /\ stack' = Pop(t)
    /\ UNCHANGED <<_instance, _lock, _subscribers, bus, escaped, epoch,
                   createdIn, busEpoch, subOrder, selfGone>>

(***************************************************************************)
(* A handler: any callable.  While it runs it may call subscribe,          *)
(* unsubscribe and publish of the bus (the three ...Locked actions), and   *)
(* it ends by returning or by raising.                                     *)
(***************************************************************************)
HandlerReturn(t) ==
    /\ InHandler(t)
    /\ stack' = [stack EXCEPT ![t] =
                   [SubSeq(@, 1, Len(@) - 1) EXCEPT ![Len(@) - 1].i = @ + 1]]
    /\ UNCHANGED <<_instance, _lock, _subscribers, _sub_lock, bus, escaped,
                   epoch, createdIn, busEpoch, subOrder, selfGone>>

\* A handler that never returns: from here its thread takes no step.
HandlerHang(t) ==
    /\ InHandler(t)
    /\ stack' = Goto(t, "hung")
    /\ UNCHANGED <<_instance, _lock, _subscribers, _sub_lock, bus, escaped,
                   epoch, createdIn, busEpoch, subOrder, selfGone>>

HandlerRaise(t, kind) ==
    /\ InHandler(t)
    /\ stack' = [stack EXCEPT ![t] = RaiseStack(t, kind)]
    /\ _sub_lock' = RaiseLocks(t, kind)
    /\ escaped' = RaiseEscaped(t, kind)
    /\ UNCHANGED <<_instance, _lock, _subscribers, bus, epoch, createdIn,
                   busEpoch, subOrder, selfGone>>

(***************************************************************************)
(* models.py: the frozen dataclasses Tracker (lines 13-26) and             *)
(* PriceSnapshot (lines 28-42).  events.py imports the name Ticker from     *)
(* models, where it is matplotlib's; the value class with symbol,          *)
(* asset_type and display_name is Tracker.  PriceSnapshot declares the     *)
(* defaulted field timestamp before its fields without default, which      *)
(* dataclass rejects; the model takes the two classes with the fields and  *)
(* the properties their bodies declare.                                    *)
(***************************************************************************)
\* class AssetType(Enum)   (lines 9-11)
AssetType == {"STOCK", "CRYPTO"}

\* Arguments of Tracker(symbol, asset_type, display_name): any str.
Symbols == {"", "AAPL", "btc"}
DisplayNames == {"", "Apple Inc.", "Bitcoin"}

NoTracker == [symbol |-> "", asset_type |-> "-", display_name |-> ""]

\* `not x` for a str: the empty string is the only false one.
Not(x) == x = ""

\* The generated __init__ followed by __post_init__:
\* if not self.display_name:
\*     object.__setattr__(self, "display_name", self.symbol)   (lines 20-22)
post_init(symbol, asset_type, display_name) ==
    [symbol |-> symbol, asset_type |-> asset_type,
     display_name |-> IF Not(display_name) THEN symbol ELSE display_name]

\* A float: NaN, or a number (here a whole number of MaxPct at most in size).
NaN == [nan |-> TRUE, v |-> 0]
Number(n) == [nan |-> FALSE, v |-> n]
Floats == {Number(n) : n \in -MaxPct .. MaxPct} \cup {NaN}

\* x >= y on floats: false whenever one of them is NaN.
Ge(x, y) == ~x.nan /\ ~y.nan /\ x.v >= y.v

NoSnapshot == [price |-> Number(0), ticker |-> NoTracker,
               changes |-> Number(0), change_pct |-> Number(0)]

\* return self.change_pct > 0
is_positive_Strict(s) == ~s.change_pct.nan /\ s.change_pct.v > 0

\* return self.change_pct >= 0   (line 38)
is_positive(s) == Ge(s.change_pct, Number(0))

\* The two characters of line 42, U+25B2 and U+25BC.
Up == "BLACK UP-POINTING TRIANGLE"
Down == "BLACK DOWN-POINTING TRIANGLE"

\* return "▲" if self.is_positive else "▼"   (line 42)
direction_symbol(s) == IF is_positive(s) THEN Up ELSE Down

\* Tracker(symbol, asset_type, display_name)
NewTracker(symbol, asset_type, display_name) ==
    /\ tracker' = post_init(symbol, asset_type, display_name)
    /\ UNCHANGED <<busVars, unsubscribed, barred, snapshot>>

\* PriceSnapshot(price=..., ticker=tracker, changes=..., change_pct=...)
NewSnapshot(price, changes, change_pct) ==
    /\ tracker # NoTracker
    /\ snapshot' = [price |-> price, ticker |-> tracker,
                    changes |-> changes, change_pct |-> change_pct]
    /\ UNCHANGED <<busVars, unsubscribed, barred, tracker>>

(***************************************************************************)
(* The program.                                                            *)
(***************************************************************************)
\* Before the first call of EventBus.instance().
Init ==
    /\ _instance = None
    /\ _lock = 0
    /\ _subscribers = <<>>
    /\ _sub_lock = <<>>
    /\ stack = [t \in Threads |-> <<>>]
    /\ bus = [t \in Threads |-> Unset]
    /\ escaped = [t \in Threads |-> ""]
    /\ epoch = 0
    /\ createdIn = <<>>
    /\ busEpoch = [t \in Threads |-> Unset]
    /\ subOrder = <<>>
    /\ selfGone = NoGone
    /\ unsubscribed = {}
    /\ barred = [t \in Threads |-> {}]
    /\ tracker = NoTracker
    /\ snapshot = NoSnapshot

\* After every thread has called EventBus.instance() once.
InitBus ==
    /\ _instance = 1
    /\ _lock = 0
    /\ _subscribers = <<InitSubscribers>>
    /\ _sub_lock = <<0>>
    /\ stack = [t \in Threads |-> <<>>]
    /\ bus = [t \in Threads |-> 1]
    /\ escaped = [t \in Threads |-> ""]
    /\ epoch = 0
    /\ createdIn = <<0>>
    /\ busEpoch = [t \in Threads |-> 0]
    /\ subOrder = <<[T \in EventTypes |-> <<>>]>>
    /\ selfGone = NoGone
    /\ unsubscribed = {}
    /\ barred = [t \in Threads |-> {}]
    /\ tracker = NoTracker
    /\ snapshot = NoSnapshot

\* What a step of the bus leaves alone: the histories kept for other
\* specifications, and the values of models.py.
Still == UNCHANGED <<unsubscribed, barred, tracker, snapshot>>

(***************************************************************************)
(* One thread on one bus: every call, from the top level and from inside   *)
(* a handler, with publish calls nested up to MaxDepth.                    *)
(***************************************************************************)
Next ==
    \/ \E T \in EventTypes, h \in Handlers : SubscribeLocked(1, T, h) /\ Still
    \/ SubscribeRelease(1) /\ Still
    \/ \E T \in EventTypes, h \in Handlers : UnsubscribeLocked(1, T, h) /\ Still
    \/ UnsubscribeRelease(1) /\ Still
    \/ \E ev \in Events : PublishLocked(1, ev) /\ Still
    \/ PublishRelease(1) /\ Still
    \/ PublishInvoke(1) /\ Still
    \/ PublishReturn(1) /\ Still
    \/ HandlerReturn(1) /\ Still
    \/ \E kind \in ExceptionKinds : HandlerRaise(1, kind) /\ Still

Spec == InitBus /\ [][Next]_vars

(***************************************************************************)
(* Several threads on one bus.  Thread 1 publishes to handlers that        *)
(* subscribe and unsubscribe while they run; the other threads call        *)
(* subscribe and unsubscribe from their top level.                         *)
(***************************************************************************)
NextThreads ==
    \E t \in Threads :
        \/ \E T \in EventTypes, h \in Handlers :
              (t = 1 \/ Idle(t)) /\ SubscribeLocked(t, T, h) /\ Still
        \/ SubscribeRelease(t) /\ Still
        \/ \E T \in EventTypes, h \in Handlers :
              (t = 1 \/ Idle(t)) /\ UnsubscribeLocked(t, T, h) /\ Still
        \/ UnsubscribeRelease(t) /\ Still
        \/ \E ev \in Events : t = 1 /\ Idle(t) /\ PublishLocked(t, ev) /\ Still
        \/ PublishRelease(t) /\ Still
        \/ PublishInvoke(t) /\ Still
        \/ PublishReturn(t) /\ Still
        \/ HandlerReturn(t) /\ Still

SpecThreads == InitBus /\ [][NextThreads]_vars

(***************************************************************************)
(* The singleton: several threads call instance() and reset(), and         *)
(* subscribe, unsubscribe and publish on the bus instance() gave them.     *)
(***************************************************************************)
NextSingleton ==
    \E t \in Threads :
        \/ InstanceCall(t) /\ Still
        \/ InstanceLocked(t) /\ Still
        \/ InstanceRelease(t) /\ Still
        \/ InstanceReturn(t) /\ Still
        \/ ResetLocked(t) /\ Still
        \/ ResetRelease(t) /\ Still
        \/ Idle(t) /\ SubscribeLocked(t, "FetchFailedEvent", 1) /\ Still
        \/ SubscribeRelease(t) /\ Still
        \/ Idle(t) /\ UnsubscribeLocked(t, "FetchFailedEvent", 1) /\ Still
        \/ UnsubscribeRelease(t) /\ Still
        \/ Idle(t) /\ PublishLocked(t, [type |-> "FetchFailedEvent", payload |-> 1]) /\ Still
        \/ PublishRelease(t) /\ Still
        \/ PublishInvoke(t) /\ Still
        \/ PublishReturn(t) /\ Still
        \/ HandlerReturn(t) /\ Still

SpecSingleton == Init /\ [][NextSingleton]_vars

(***************************************************************************)
(* One thread on one bus with longer lists: subscribe line by line,        *)
(* unsubscribe and publish, from the top level and (subscribe and          *)
(* unsubscribe) from inside a handler.                                     *)
(***************************************************************************)
NextCounts ==
    \/ \E T \in EventTypes, h \in Handlers : SubscribeCall(1, T, h) /\ Still
    \/ SubscribeAcquire(1) /\ Still
    \/ SubscribeCheck(1) /\ Still
    \/ SubscribeCreate(1) /\ Still
    \/ SubscribeAppend(1) /\ Still
    \/ SubscribeRelease(1) /\ Still
    \/ \E T \in EventTypes, h \in Handlers : UnsubscribeLocked(1, T, h) /\ Still
    \/ UnsubscribeRelease(1) /\ Still
    \/ \E ev \in Events : Idle(1) /\ PublishLocked(1, ev) /\ Still
    \/ PublishRelease(1) /\ Still
    \/ PublishInvoke(1) /\ Still
    \/ PublishReturn(1) /\ Still
    \/ HandlerReturn(1) /\ Still
    \/ \E kind \in ExceptionKinds : HandlerRaise(1, kind) /\ Still

SpecCounts == InitBus /\ [][NextCounts]_vars

(***************************************************************************)
(* Two threads on one bus, three handlers: thread 2 subscribes (line by    *)
(* line) and unsubscribes handlers of RefreshCompletedEvent while thread 1 *)
(* publishes events of both types.  The steps also keep the two histories  *)
(* `unsubscribed` and `barred`.                                            *)
(***************************************************************************)
StillModels == UNCHANGED <<tracker, snapshot>>

\* The call subscribe(T, h) ends what an earlier unsubscribe(T, h) began.
NoteSubscribe(t, T, h) ==
    /\ unsubscribed' = unsubscribed \ {<<TargetBus(t), T, h>>}
    /\ UNCHANGED barred

\* The return of an unsubscribe(T, h) that removed the only registration
\* of h.
NoteUnsubscribed(t) ==
    /\ unsubscribed' =
          IF Top(t).present /\ Count(DictGet(Top(t).before, Top(t).etype), Top(t).h) = 1
          THEN unsubscribed \cup {<<Top(t).bus, Top(t).etype, Top(t).h>>}
          ELSE unsubscribed
    /\ UNCHANGED barred

\* The start of publish(ev).
NotePublish(t, ev) ==
    /\ barred' = [barred EXCEPT ![t] =
                    {h \in 1 .. MaxHandlers : <<TargetBus(t), TypeOf(ev), h>> \in unsubscribed}]
    /\ UNCHANGED unsubscribed

NextLater ==
    \/ \E T \in {"RefreshCompletedEvent"}, h \in 1 .. MaxHandlers :
          SubscribeCall(2, T, h) /\ NoteSubscribe(2, T, h) /\ StillModels
    \/ SubscribeAcquire(2) /\ Still
    \/ SubscribeCheck(2) /\ Still
    \/ SubscribeCreate(2) /\ Still
    \/ SubscribeAppend(2) /\ Still
    \/ SubscribeRelease(2) /\ Still
    \/ \E T \in {"RefreshCompletedEvent"}, h \in 1 .. MaxHandlers : UnsubscribeLocked(2, T, h) /\ Still
    \/ UnsubscribeRelease(2) /\ NoteUnsubscribed(2) /\ StillModels
    \/ \E ev \in Events :
          Idle(1) /\ PublishLocked(1, ev) /\ NotePublish(1, ev) /\ StillModels
    \/ PublishRelease(1) /\ Still
    \/ PublishInvoke(1) /\ Still
    \/ PublishReturn(1) /\ Still
    \/ HandlerReturn(1) /\ Still

SpecLater == InitBus /\ [][NextLater]_vars

(***************************************************************************)
(* A hung handler.  Thread 1 publishes, and a handler it invokes may never *)
(* return; the other threads subscribe, unsubscribe and publish from       *)
(* their top level, to handlers that return.  A thread that is not inside  *)
(* a hung handler keeps running: the steps that end a with block, the      *)
(* dispatch loop of the other threads and their handlers' returns are      *)
(* taken when they can be.                                                 *)
(***************************************************************************)
Others == Threads \ {1}

\* The steps of thread t that go on with a call it is in.
GoOn(t) ==
    \/ SubscribeRelease(t) /\ Still
    \/ UnsubscribeRelease(t) /\ Still
    \/ PublishRelease(t) /\ Still
    \/ PublishInvoke(t) /\ Still
    \/ PublishReturn(t) /\ Still
    \/ HandlerReturn(t) /\ Still

NextHang ==
    \/ \E ev \in Events : Idle(1) /\ PublishLocked(1, ev) /\ Still
    \/ PublishRelease(1) /\ Still
    \/ PublishInvoke(1) /\ Still
    \/ PublishReturn(1) /\ Still
    \/ HandlerReturn(1) /\ Still
    \/ HandlerHang(1) /\ Still
    \/ \E t \in Others, T \in EventTypes, h \in Handlers :
          Idle(t) /\ SubscribeLocked(t, T, h) /\ Still
    \/ \E t \in Others, T \in EventTypes, h \in Handlers :
          Idle(t) /\ UnsubscribeLocked(t, T, h) /\ Still
    \/ \E t \in Others, ev \in Events : Idle(t) /\ PublishLocked(t, ev) /\ Still
    \/ \E t \in Others : GoOn(t)

SpecHang ==
    /\ InitBus
    /\ [][NextHang]_vars
    /\ WF_vars(PublishRelease(1) /\ Still)
    /\ \A t \in Others : WF_vars(GoOn(t))

(***************************************************************************)
(* Concurrent subscribe calls: every thread calls subscribe from its top   *)
(* level, and the calls run line by line.                                  *)
(***************************************************************************)
NextSubscribe ==
    \E t \in Threads :
        \/ \E T \in EventTypes, h \in Handlers :
              Idle(t) /\ SubscribeCall(t, T, h) /\ Still
        \/ SubscribeAcquire(t) /\ Still
        \/ SubscribeCheck(t) /\ Still
        \/ SubscribeCreate(t) /\ Still
        \/ SubscribeAppend(t) /\ Still
        \/ SubscribeRelease(t) /\ Still

SpecSubscribe == InitBus /\ [][NextSubscribe]_vars

(***************************************************************************)
(* Dispatch to handlers that subscribe.  One thread subscribes and         *)
(* publishes from its top level; a handler it invokes may call subscribe,  *)
(* for itself or another handler and for either type, and then returns or  *)
(* raises.  The thread keeps running: some step is taken whenever one can  *)
(* be, which for a running handler means that it ends.                     *)
(***************************************************************************)
NextDispatch ==
    \/ \E T \in EventTypes, h \in Handlers : SubscribeLocked(1, T, h) /\ Still
    \/ SubscribeRelease(1) /\ Still
    \/ \E ev \in Events : Idle(1) /\ PublishLocked(1, ev) /\ Still
    \/ PublishRelease(1) /\ Still
    \/ PublishInvoke(1) /\ Still
    \/ PublishReturn(1) /\ Still
    \/ HandlerReturn(1) /\ Still
    \/ \E kind \in ExceptionKinds : HandlerRaise(1, kind) /\ Still

SpecDispatch == InitBus /\ [][NextDispatch]_vars /\ WF_vars(NextDispatch)

(***************************************************************************)
(* The values of models.py: Tracker and PriceSnapshot constructed from     *)
(* every combination of arguments.                                         *)
(***************************************************************************)
Prices == {Number(n) : n \in 1 .. MaxPct}

NextModels ==
    \/ \E symbol \in Symbols, asset_type \in AssetType, display_name \in DisplayNames :
          NewTracker(symbol, asset_type, display_name)
    \/ \E price \in Prices, changes \in Floats, change_pct \in Floats :
          NewSnapshot(price, changes, change_pct)

SpecModels == Init /\ [][NextModels]_vars

(***************************************************************************)
(* What the claims speak of.                                               *)
(***************************************************************************)
\* The publish frames on the stacks, as <<thread, position>>.
PublishFrames ==
    {p \in Threads \X (1 .. MaxDepth * 3) :
        p[2] <= Len(stack[p[1]]) /\ stack[p[1]][p[2]].op = "publish"}

FrameAt(p) == stack[p[1]][p[2]]

\* The handlers a dispatch has invoked so far, in order.
InvokedHandlers(f) == [k \in 1 .. Len(f.invoked) |-> f.invoked[k][1]]

\* The for loop of the frame is exhausted: publish is about to return.
Returning(f) == f.pc = "loop" /\ f.i > Len(DispatchList(f))

\* The list registered for the frame's event type as it is now.
Registered(f) == DictGet(_subscribers[f.bus], f.ev.type)

\* C1: a publish of an event of type T invokes the handlers subscribed to T,
\* all of them when it returns, each with that event, in the order of their
\* subscribe calls.
C1_InvokesAllInSubscriptionOrder ==
    \A p \in PublishFrames :
        LET f == FrameAt(p)
        IN  /\ IsPrefix(InvokedHandlers(f), f.expect)
            /\ \A k \in 1 .. Len(f.invoked) : f.invoked[k][2] = f.ev
            /\ Returning(f) => InvokedHandlers(f) = f.expect

\* Handler 2 was subscribed before handler 1, and a publish has invoked 2,
\* then 1.
C1_Witness ==
    \E p \in PublishFrames :
        /\ Returning(FrameAt(p))
        /\ FrameAt(p).expect = <<2, 1>>
        /\ InvokedHandlers(FrameAt(p)) = <<2, 1>>

\* C2: when a handler raises an error (an Exception) during publish, the
\* handlers after it in the snapshot are still invoked in that publish call,
\* and no such error leaves publish.
C2_RaisingHandlerIsIsolated ==
    /\ \A t \in Threads : escaped[t] # "Exception"
    /\ \A p \in PublishFrames :
          LET f == FrameAt(p)
          IN  f.raised # {} =>
                /\ \A k \in f.raised : k < f.i
                /\ Returning(f) => InvokedHandlers(f) = f.handlers

\* The first of two handlers raised, the second was invoked, publish returns.
C2_Witness ==
    \E p \in PublishFrames :
        /\ Returning(FrameAt(p))
        /\ 1 \in FrameAt(p).raised
        /\ Len(FrameAt(p).handlers) = 2
        /\ Len(FrameAt(p).invoked) = 2

\* The first half of C3: a dispatch in which a handler unsubscribed itself
\* still invokes every handler of its snapshot.
SelfUnsubscribeKeepsDispatch ==
    \A p \in PublishFrames :
        LET f == FrameAt(p)
        IN  f.selfUnsub =>
              /\ IsPrefix(InvokedHandlers(f), f.expect)
              /\ Returning(f) => InvokedHandlers(f) = f.expect

\* C3 as stated: a handler that unsubscribed itself during its own
\* invocation (and was not subscribed again) is in the snapshot of no
\* later publish of that type, and the dispatch it did so in still invokes
\* every handler of its snapshot.
C3_Original ==
    /\ SelfUnsubscribeKeepsDispatch
    /\ \A p \in PublishFrames :
          FrameAt(p).gone.kind # "no" =>
              FrameAt(p).gone.h \notin Range(FrameAt(p).handlers)

\* C3 as amended: ... is in the snapshot of no later publish of that type,
\* if it had a single registration for the type when it unsubscribed itself.
C3_SelfUnsubscribe ==
    /\ SelfUnsubscribeKeepsDispatch
    /\ \A p \in PublishFrames :
          FrameAt(p).gone.kind = "one" =>
              FrameAt(p).gone.h \notin Range(FrameAt(p).handlers)

\* A dispatch to two handlers whose first one unsubscribed itself has gone on
\* to the second, which publishes the same type again; the snapshot of that
\* later publish holds the second handler only.
C3_Witness ==
    /\ Len(stack[1]) = 3
    /\ stack[1][1].selfUnsub
    /\ Len(stack[1][1].handlers) = 2
    /\ stack[1][1].i = 2
    /\ stack[1][3].op = "publish"
    /\ stack[1][3].gone.kind = "one"
    /\ stack[1][3].gone.h = stack[1][1].handlers[1]
    /\ stack[1][3].handlers = <<stack[1][1].handlers[2]>>
    /\ Returning(stack[1][3])

\* C4: while no reset() intervenes, at most one bus is constructed, and all
\* instance() calls return that same bus.
C4_OneBusPerEpoch ==
    /\ \A b1, b2 \in Buses : createdIn[b1] = createdIn[b2] => b1 = b2
    /\ \A t1, t2 \in Threads :
          busEpoch[t1] # Unset /\ busEpoch[t1] = busEpoch[t2] =>
              bus[t1] = bus[t2] /\ bus[t1] \in Buses

\* Thread 1 has its bus while thread 2, which found no bus at its first
\* check, is still inside the with block.
C4_Witness ==
    /\ At(2, "instance", "release")
    /\ Top(2).startEpoch = 0
    /\ epoch = 0
    /\ busEpoch[1] = 0
    /\ bus[1] = 1

\* C5: no instance() call returns None, whatever reset() calls run
\* concurrently.
C5_InstanceNeverReturnsNone == \A t \in Threads : bus[t] # None

\* C6: an instance() call made after a reset() returns a bus constructed
\* after that reset, and a bus holds and dispatches to no handler but those
\* subscribed on it: the new bus starts with an empty registry.
C6_FreshBusAfterReset ==
    /\ \A t \in Threads :
          busEpoch[t] # Unset =>
              bus[t] \in Buses /\ createdIn[bus[t]] = busEpoch[t]
    /\ \A b \in Buses, T \in EventTypes :
          DictGet(_subscribers[b], T) = subOrder[b][T]
    /\ \A p \in PublishFrames :
          Range(InvokedHandlers(FrameAt(p))) \subseteq Range(FrameAt(p).expect)

\* Bus 1 has a subscriber; after the reset a thread got bus 2 from
\* instance(), and its publish on bus 2 found no handler.
C6_Witness ==
    \E t \in Threads :
        /\ epoch = 1
        /\ busEpoch[t] = 1
        /\ bus[t] = 2
        /\ DictGet(_subscribers[1], "FetchFailedEvent") # <<>>
        /\ At(t, "publish", "loop")
        /\ Top(t).bus = 2
        /\ Top(t).handlers = <<>>

\* C7: the registry lock is not held by the publishing thread while one of
\* its handlers runs, so the handler's own unsubscribe call can enter the
\* lock's with block.
C7_NoLockDuringHandler ==
    \A t \in Threads :
        InHandler(t) =>
            /\ _sub_lock[Top(t).bus] # t
            /\ \A k \in 1 .. Len(stack[t]) : ~HoldsSubLock(stack[t][k])
            /\ Top(t).calls < MaxCalls =>
                  ENABLED UnsubscribeLocked(t, Top(t).etype, Top(t).h)

\* A handler has published from inside its invocation; the nested publish
\* has invoked a handler and is about to return to it.
C7_Witness ==
    /\ Len(stack[1]) = 3
    /\ stack[1][2].op = "handler"
    /\ stack[1][3].op = "publish"
    /\ stack[1][3].bus = stack[1][1].bus
    /\ Len(stack[1][3].invoked) >= 1
    /\ Returning(stack[1][3])

\* C8: unsubscribe(T, h) with h not in the list of T (or T not a key) raises
\* nothing and leaves the dict as it was: same keys, same lists.
C8_UnsubscribeAbsentIsNoOp ==
    \A t \in Threads :
        /\ escaped[t] # "Exception"
        /\ At(t, "unsubscribe", "release") /\ ~Top(t).present =>
              _subscribers[Top(t).bus] = Top(t).before

\* An unsubscribe of a handler that is not in the non-empty list of its type
\* has run.
C8_Witness ==
    /\ At(1, "unsubscribe", "release")
    /\ ~Top(1).present
    /\ DictGet(_subscribers[1], Top(1).etype) # <<>>

\* C9: a publish of an event of type T invokes only handlers subscribed to T,
\* and subscribe / unsubscribe of T leave the key and list of every other
\* type as they were.
C9_DispatchByExactType ==
    /\ \A p \in PublishFrames :
          /\ FrameAt(p).etype = FrameAt(p).ev.type
          /\ Range(InvokedHandlers(FrameAt(p))) \subseteq Range(FrameAt(p).expect)
    /\ \A t \in Threads :
          At(t, "subscribe", "release") \/ At(t, "unsubscribe", "release") =>
              \A U \in EventTypes \ {Top(t).etype} :
                  /\ U \in _subscribers[Top(t).bus].keys <=> U \in Top(t).before.keys
                  /\ _subscribers[Top(t).bus].lists[U] = Top(t).before.lists[U]

\* Handler 1 is subscribed to one type only, handler 2 to the other only; a
\* publish of the first type has invoked handler 1 alone.
C9_Witness ==
    \E p \in PublishFrames :
        /\ Returning(FrameAt(p))
        /\ FrameAt(p).ev.type = "FetchFailedEvent"
        /\ InvokedHandlers(FrameAt(p)) = <<1>>
        /\ DictGet(_subscribers[1], "FetchFailedEvent") = <<1>>
        /\ DictGet(_subscribers[1], "RefreshCompletedEvent") = <<2>>

\* C10: a publish invokes exactly its snapshot, in order, whatever subscribe
\* and unsubscribe calls change the registry afterwards; the snapshot is the
\* registry as it is when it is taken.
C10_SnapshotDecidesDispatch ==
    \A p \in PublishFrames :
        LET f == FrameAt(p)
        IN  /\ f.handlers = f.expect
            /\ Registered(f) # f.handlers =>
                  /\ IsPrefix(InvokedHandlers(f), f.handlers)
                  /\ Returning(f) => InvokedHandlers(f) = f.handlers

\* Thread 1's publish has invoked both handlers of its snapshot although
\* thread 2's unsubscribe, still inside its with block, has removed the
\* second one meanwhile.
C10_Witness ==
    /\ At(1, "publish", "loop")
    /\ Returning(Top(1))
    /\ Len(Top(1).handlers) = 2
    /\ InvokedHandlers(Top(1)) = Top(1).handlers
    /\ At(2, "unsubscribe", "release")
    /\ Top(2).present
    /\ Top(2).etype = Top(1).etype
    /\ Top(2).h = Top(1).handlers[2]
    /\ Registered(Top(1)) = <<Top(1).handlers[1]>>

\* new is old without its element at position k.
RemovedAt(old, new, k) ==
    /\ Len(new) = Len(old) - 1
    /\ \A j \in 1 .. Len(new) : new[j] = IF j < k THEN old[j] ELSE old[j + 1]

\* C11: a publish of T invokes each handler as many times as it is
\* registered for T (subscribe calls less unsubscribe calls that found it),
\* and an unsubscribe(T, h) that finds h takes the first h out of the list
\* of T and leaves the rest of that list as it was, in order.
C11_NoDeduplication ==
    /\ \A p \in PublishFrames :
          Returning(FrameAt(p)) =>
              \A h \in Handlers :
                  Count(InvokedHandlers(FrameAt(p)), h) = Count(FrameAt(p).expect, h)
    /\ \A t \in Threads :
          At(t, "unsubscribe", "release") /\ Top(t).present =>
              LET old == DictGet(Top(t).before, Top(t).etype)
                  new == DictGet(_subscribers[Top(t).bus], Top(t).etype)
              IN  \E k \in 1 .. Len(old) :
                      /\ old[k] = Top(t).h
                      /\ \A j \in 1 .. k - 1 : old[j] # Top(t).h
                      /\ RemovedAt(old, new, k)

\* A publish has invoked handler 1 twice, for the list <<1, 2, 1>>, and the
\* handler it invoked last has called unsubscribe for handler 1: <<2, 1>> is
\* left.
C11_Witness ==
    /\ Len(stack[1]) = 3
    /\ stack[1][1].op = "publish"
    /\ stack[1][1].expect = <<1, 2, 1>>
    /\ InvokedHandlers(stack[1][1]) = <<1, 2, 1>>
    /\ At(1, "unsubscribe", "release")
    /\ Top(1).h = 1
    /\ Top(1).etype = stack[1][1].etype
    /\ DictGet(Top(1).before, Top(1).etype) = <<1, 2, 1>>
    /\ DictGet(_subscribers[1], Top(1).etype) = <<2, 1>>

\* C12: a publish of T that starts after an unsubscribe(T, h) has returned
\* having removed the only registration of h (and before a new subscribe(T,
\* h)) does not invoke h, and invokes the handlers that are left in their
\* order; such an unsubscribe takes h out of the list and leaves the others
\* in their order.
C12_UnsubscribedIsNotInvokedLater ==
    /\ \A p \in PublishFrames :
          LET f == FrameAt(p)
          IN  /\ Range(f.handlers) \cap barred[p[1]] = {}
              /\ Range(InvokedHandlers(f)) \cap barred[p[1]] = {}
              /\ IsPrefix(InvokedHandlers(f), f.handlers)
              /\ Returning(f) => InvokedHandlers(f) = f.handlers
    /\ \A t \in Threads :
          LET old == DictGet(Top(t).before, Top(t).etype)
              new == DictGet(_subscribers[Top(t).bus], Top(t).etype)
          IN  At(t, "unsubscribe", "release") /\ Top(t).present
                      /\ Count(old, Top(t).h) = 1 =>
                  /\ Top(t).h \notin Range(new)
                  /\ \E k \in 1 .. Len(old) : RemovedAt(old, new, k)

\* unsubscribe(T, 2) has returned on thread 2 and left handlers 1 and 3 in
\* the list, and the publish that thread 1 started after it has invoked 1
\* and 3.
C12_Witness ==
    /\ Idle(2)
    /\ At(1, "publish", "loop")
    /\ Returning(Top(1))
    /\ barred[1] = {2}
    /\ InvokedHandlers(Top(1)) = <<1, 3>>
    /\ Registered(Top(1)) = <<1, 3>>

\* Thread t is inside a handler that never returns.
Hung(t) == At(t, "handler", "hung")

Appending(b, T, h) ==
    {t \in Threads :
        /\ ~Idle(t)
        /\ Top(t).op = "subscribe"
        /\ Top(t).pc \in {"acquire", "check", "create", "append"}
        /\ Top(t).bus = b /\ Top(t).etype = T /\ Top(t).h = h}

\* C14: with subscribe calls of several threads interleaved in every way,
\* a handler is in the list of its type once per subscribe call that has
\* got past its append, no more and no less; when all calls have returned,
\* once per call.
C14_ConcurrentSubscribeLosesNothing ==
    \A b \in Buses, T \in EventTypes, h \in Handlers :
        /\ Count(DictGet(_subscribers[b], T), h)
              = Count(subOrder[b][T], h) - Cardinality(Appending(b, T, h))
        /\ (\A t \in Threads : Idle(t)) =>
              Count(DictGet(_subscribers[b], T), h) = Count(subOrder[b][T], h)

\* All calls have returned.  subscribe(T, 1) was called first, and
\* subscribe(T, 2) was called by the other thread before the first call had
\* entered its with block and entered its own first: handler 2 is ahead of
\* handler 1 in the list, and all three registrations are there.
C14_Witness ==
    /\ \A t \in Threads : Idle(t)
    /\ subOrder[1]["FetchFailedEvent"] = <<1, 2, 2>>
    /\ DictGet(_subscribers[1], "FetchFailedEvent") = <<2, 1, 2>>

\* A step of publish on thread t.
PublishStep(t) ==
    \/ \E ev \in Events : PublishLocked(t, ev)
    \/ PublishRelease(t)
    \/ PublishInvoke(t)
    \/ PublishReturn(t)

\* C15: a publish of an event whose type has no registered handler (no key,
\* or a key with an empty list) has an empty snapshot, invokes nothing and
\* is at its return as soon as it has left the with block; and no step of
\* any publish changes the dict of any bus.
C15_PublishToNobody ==
    /\ [](\A p \in PublishFrames :
            FrameAt(p).expect = <<>> =>
                /\ FrameAt(p).handlers = <<>>
                /\ FrameAt(p).invoked = <<>>
                /\ FrameAt(p).pc = "loop" =>
                      /\ Returning(FrameAt(p))
                      /\ p[2] = Len(stack[p[1]])
                      /\ ENABLED PublishReturn(p[1]))
    /\ [][\A t \in Threads : PublishStep(t) => _subscribers' = _subscribers]_vars

\* A publish of an event of a type that is not a key of the dict, which
\* has a handler for the other type, is about to return having invoked
\* nothing; the type is still not a key.
C15_Witness ==
    /\ At(1, "publish", "loop")
    /\ Returning(Top(1))
    /\ Top(1).invoked = <<>>
    /\ Top(1).etype \notin _subscribers[1].keys
    /\ \E U \in EventTypes : DictGet(_subscribers[1], U) # <<>>

\* C16: the display_name of a constructed Tracker is not empty, whatever
\* symbol and display_name the constructor was given.
C16_DisplayNameNeverEmpty ==
    tracker # NoTracker => tracker.display_name # ""

\* A step of subscribe, unsubscribe or publish (or of a handler) on thread t.
RegistryStep(t) ==
    \/ \E T \in EventTypes, h \in Handlers : SubscribeLocked(t, T, h)
    \/ SubscribeRelease(t)
    \/ \E T \in EventTypes, h \in Handlers : UnsubscribeLocked(t, T, h)
    \/ UnsubscribeRelease(t)
    \/ PublishStep(t)
    \/ HandlerReturn(t)

\* C17: EventBus._instance goes from None to a bus only in a step of
\* instance(), from a bus to None only in a step of reset(), and never from
\* one bus to another; a reset() leaves it None; an instance() call that no
\* reset cuts returns the bus of its epoch, which is EventBus._instance; and
\* no step of subscribe, unsubscribe or publish changes it.
C17_UninitializedInitialized ==
    /\ [](\A t \in Threads : At(t, "reset", "release") => _instance = None)
    /\ [][/\ _instance = None /\ _instance' # None => \E t \in Threads : InstanceLocked(t)
          /\ _instance # None /\ _instance' = None => \E t \in Threads : ResetLocked(t)
          /\ _instance # None => _instance' \in {_instance, None}
          /\ \A t \in Threads :
                InstanceReturn(t) /\ Top(t).startEpoch = epoch =>
                    /\ bus'[t] = _instance
                    /\ bus'[t] \in Buses
                    /\ \A b \in Buses : createdIn[b] = epoch => bus'[t] = b
          /\ \A t \in Threads : RegistryStep(t) => _instance' = _instance]_vars

\* The reference has been None, bus 1, None after the reset, and is bus 2,
\* which instance() has returned to a thread, while a subscribe call on bus
\* 1 is under way on another thread.
C17_Witness ==
    /\ epoch = 1
    /\ _instance = 2
    /\ \E t, u \in Threads :
          /\ Idle(t) /\ busEpoch[t] = 1 /\ bus[t] = 2
          /\ At(u, "subscribe", "release") /\ Top(u).bus = 1

\* The change_pct of the snapshot is below zero.
StrictlyNegative(s) == ~s.change_pct.nan /\ s.change_pct.v < 0

\* What C18 says of every constructed PriceSnapshot but for the last part:
\* the indicator is one of two values, it is the up one exactly if
\* is_positive, and is_positive is change_pct >= 0, so that zero reads as up.
DirectionFollowsIsPositive ==
    snapshot # NoSnapshot =>
        /\ direction_symbol(snapshot) \in {Up, Down}
        /\ direction_symbol(snapshot) = Up <=> is_positive(snapshot)
        /\ is_positive(snapshot) <=> Ge(snapshot.change_pct, Number(0))
        /\ snapshot.change_pct = Number(0) => direction_symbol(snapshot) = Up
        /\ StrictlyNegative(snapshot) => direction_symbol(snapshot) = Down

\* C18 as stated: ... and only a change_pct below zero reads as down.
C18_Original ==
    /\ DirectionFollowsIsPositive
    /\ snapshot # NoSnapshot /\ direction_symbol(snapshot) = Down =>
          StrictlyNegative(snapshot)

\* C18 as amended: ... and only a change_pct below zero, or one that is NaN,
\* reads as down.
C18_DirectionFromIsPositive ==
    /\ DirectionFollowsIsPositive
    /\ snapshot # NoSnapshot /\ direction_symbol(snapshot) = Down =>
          StrictlyNegative(snapshot) \/ snapshot.change_pct = NaN

\* A snapshot whose change_pct is exactly zero reads as up.
C18_Witness ==
    /\ snapshot # NoSnapshot
    /\ snapshot.change_pct = Number(0)
    /\ direction_symbol(snapshot) = Up

\* Thread t is inside a publish call it made from its top level.
Publishing(t) == ~Idle(t) /\ stack[t][1].op = "publish"

\* C19: a publish call invokes no more handlers than its snapshot holds and,
\* when its loop ends, exactly as many, whatever its handlers subscribe
\* meanwhile; and with handlers that return or raise, every publish call
\* ends.
C19_PublishTerminates ==
    /\ [](\A p \in PublishFrames :
            /\ Len(FrameAt(p).invoked) <= Len(FrameAt(p).handlers)
            /\ Returning(FrameAt(p)) =>
                  Len(FrameAt(p).invoked) = Len(FrameAt(p).handlers))
    /\ \A t \in Threads : Publishing(t) ~> Idle(t)

\* A publish whose snapshot held handler 1 alone is about to return after
\* one invocation, in which handler 1 subscribed itself again to the type
\* of the event: the list holds it twice now.
C19_Witness ==
    /\ At(1, "publish", "loop")
    /\ Returning(Top(1))
    /\ Top(1).handlers = <<1>>
    /\ Len(Top(1).invoked) = 1
    /\ Registered(Top(1)) = <<1, 1>>

\* The positions k of thread t's stack that hold a publish whose handler,
\* at k + 1, has called the publish at k + 2.
NestedAt(t) ==
    {k \in 1 .. Len(stack[t]) - 2 :
        /\ stack[t][k].op = "publish"
        /\ stack[t][k + 1].op = "handler"
        /\ stack[t][k + 2].op = "publish"}

\* C20: a publish called by a handler runs on the stack of the thread that
\* is dispatching to that handler; while it runs the outer publish stays at
\* that handler, invoking nothing; and when it returns it has invoked all
\* handlers of its own snapshot, in order, each with its own event.
C20_NestedPublishIsDepthFirst ==
    /\ [](\A t \in Threads : \A k \in NestedAt(t) :
            LET outer == stack[t][k]
                inner == stack[t][k + 2]
            IN  /\ outer.pc = "loop"
                /\ Len(outer.invoked) = outer.i
                /\ outer.i <= Len(outer.handlers)
                /\ outer.invoked[outer.i][1] = stack[t][k + 1].h
                /\ inner.bus = outer.bus
                /\ IsPrefix(InvokedHandlers(inner), inner.handlers))
    /\ [][\A t \in Threads :
            /\ PublishReturn(t) /\ Len(stack[t]) >= 3 =>
                  /\ InvokedHandlers(Top(t)) = Top(t).handlers
                  /\ \A j \in 1 .. Len(Top(t).invoked) : Top(t).invoked[j][2] = Top(t).ev
                  /\ stack'[t] = SubSeq(stack[t], 1, Len(stack[t]) - 1)
            /\ \A k \in 1 .. Len(stack[t]) :
                  /\ k <= Len(stack'[t])
                  /\ stack[t][k].op = "publish"
                  /\ stack'[t][k].op = "publish"
                  /\ Len(stack'[t][k].invoked) > Len(stack[t][k].invoked)
                  => k = Len(stack[t])]_vars

\* The first of the two handlers of a publish has published an event of
\* the other type; that publish has invoked the two handlers of its
\* snapshot and is about to return to the handler, and the outer publish
\* has not invoked its second handler.
C20_Witness ==
    /\ NestedAt(1) = {1}
    /\ Len(stack[1]) = 3
    /\ Len(stack[1][1].handlers) = 2
    /\ Len(stack[1][1].invoked) = 1
    /\ stack[1][3].ev.type # stack[1][1].ev.type
    /\ Len(stack[1][3].handlers) = 2
    /\ InvokedHandlers(stack[1][3]) = stack[1][3].handlers
    /\ Returning(stack[1][3])

=============================================================================
